---- MODULE Spec2Model ----
(***************************************************************************)
(* The expense forecasting engine of finance-ai                            *)
(* (server/models/expense_predictor.py): one ExpensePredictor object, its  *)
(* ModelBank (models, scalers, category_models, seasonal_patterns), the    *)
(* tier flag _use_statistical_prediction and the pickled model file.       *)
(*                                                                         *)
(* Numbers.  Money is an integer number of rupees; a quotient is rounded   *)
(* down where the code divides floats.  Confidences are in percent         *)
(* (0.1 is 10, 0.9 is 90).  Ratios that are compared exactly (a            *)
(* normalised category amount, a percentage) are kept as num/den pairs.    *)
(* Dates are day numbers, day 0 being 2022-01-01; a calendar month is its  *)
(* index ym, ym = 1 being January 2022.                                    *)
(***************************************************************************)
EXTENDS Integers, Sequences, FiniteSets, TLC

\* ------------------------------------------------------------------ bounds

\* Longest request history, in calendar months.
MaxMonths == 9
\* Calls made on the predictor in one run.
MaxCalls == 3

\* ---------------------------------------------------------------- calendar

MonthOf(ym) == ((ym - 1) % 12) + 1
YearOf(ym) == 2022 + ((ym - 1) \div 12)
IsLeap(y) == (y % 4 = 0 /\ y % 100 # 0) \/ y % 400 = 0
DaysIn(ym) ==
    LET m == MonthOf(ym) IN
    IF m = 2 THEN (IF IsLeap(YearOf(ym)) THEN 29 ELSE 28)
    ELSE IF m \in {4, 6, 9, 11} THEN 30 ELSE 31

RECURSIVE FirstDay(_)
\* Day number of the first day of month ym.
FirstDay(ym) == IF ym <= 1 THEN 0 ELSE FirstDay(ym - 1) + DaysIn(ym - 1)

RECURSIVE YmFrom(_, _)
YmFrom(n, ym) == IF n < FirstDay(ym + 1) THEN ym ELSE YmFrom(n, ym + 1)
\* df['date'].dt.to_period('M') of a day number.
YmOfDay(n) == YmFrom(n, 1)

\* datetime.weekday(): Monday is 0; 2022-01-01 was a Saturday.
Weekday(n) == (n + 5) % 7

\* -------------------------------------------------------------- sequences

RECURSIVE SumSeq(_)
SumSeq(s) == IF s = <<>> THEN 0 ELSE Head(s) + SumSeq(Tail(s))

RECURSIVE SumExpenses(_, _)
\* df.loc[I, 'expense_amount'].sum() for a set I of row numbers.
SumExpenses(df, I) ==
    IF I = {} THEN 0
    ELSE LET i == CHOOSE j \in I : TRUE
         IN df[i].expense_amount + SumExpenses(df, I \ {i})

RECURSIVE SetToSortedSeq(_)
\* sorted(...) of a set of integers.
SetToSortedSeq(S) ==
    IF S = {} THEN <<>>
    ELSE LET m == CHOOSE x \in S : \A y \in S : x <= y
         IN <<m>> \o SetToSortedSeq(S \ {m})

Max(a, b) == IF a >= b THEN a ELSE b
Min(a, b) == IF a <= b THEN a ELSE b

RECURSIVE SqrtSearch(_, _, _)
SqrtSearch(n, lo, hi) ==
    IF lo >= hi THEN lo
    ELSE LET mid == (lo + hi + 1) \div 2
         IN IF mid * mid <= n THEN SqrtSearch(n, mid, hi)
            ELSE SqrtSearch(n, lo, mid - 1)
\* Integer square root (np.std rounds down to whole rupees here).
ISqrt(n) == IF n <= 0 THEN 0 ELSE SqrtSearch(n, 0, Min(n, 46340))

\* ---------------------------------------------------------------- requests

\* First month of every request history: January 2023, so that the look-back
\* of prepare_features stays inside the calendar.
StartYm == 12 + 1

\* One raw transaction record as a caller sends it (expenses are negative).
Txn(ym, day, amount, category) ==
    [date |-> FirstDay(ym) + day - 1, amount |-> amount, category |-> category]

Profiles == {"income", "food", "mixed"}

\* The records of the k-th month of a history:
\*   income: a salary only, no expense at all;
\*   food:   category Food only, monthly totals 1000, 1200, 1400, 1600, ...;
\*   mixed:  a salary, a flat rent and a falling Food total.
MonthRecords(profile, k) ==
    LET ym == StartYm + k - 1
        rising == 1000 + 200 * (k - 1)
        falling == 2400 - 150 * (k - 1)
    IN CASE profile = "income" -> << Txn(ym, 1, 5000, "Income") >>
         [] profile = "food" ->
              << Txn(ym, 5, -(rising - 600), "Food"),
                 Txn(ym, 12, -300, "Food"),
                 Txn(ym, 20, -300, "Food") >>
         [] OTHER ->
              << Txn(ym, 1, 5000, "Income"),
                 Txn(ym, 2, -600, "Rent"),
                 Txn(ym, 5, -(falling - 600), "Food"),
                 Txn(ym, 12, -300, "Food"),
                 Txn(ym, 20, -300, "Food") >>

RECURSIVE Records(_, _)
Records(profile, months) ==
    IF months = 0 THEN <<>>
    ELSE Records(profile, months - 1) \o MonthRecords(profile, months)

\* The request bodies callers send: the empty list and every profile over
\* 1..MaxMonths months.
Requests ==
    {[profile |-> "empty", months |-> 0]}
    \cup {[profile |-> p, months |-> m] : p \in Profiles, m \in 1 .. MaxMonths}

Transactions(req) ==
    IF req.profile = "empty" THEN <<>> ELSE Records(req.profile, req.months)

\* Target months of the requests: the month after the January 2023 start of a
\* two month history and the month after the longest history.
Targets == {StartYm + 2, StartYm + MaxMonths}

\* ----------------------------------------------------------- DataIngestor

\* One row of the DataFrame, with the derived columns the engine reads.
Row(t) ==
    [date |-> t.date, amount |-> t.amount, category |-> t.category,
     expense_amount |-> IF t.amount < 0 THEN -t.amount ELSE 0,
     ym |-> YmOfDay(t.date)]

\* load_transaction_data: an empty list gives the empty DataFrame (no
\* columns), modelled as the empty sequence; rows keep the caller's order.
load_transaction_data(transactions) ==
    [i \in 1 .. Len(transactions) |-> Row(transactions[i])]

\* Records per raw request body handed to load_transaction_data.
MaxRecords == 3

\* The 'date' of a raw record: an ISO date string (5 January or 10 February
\* 2023), a string that is no date, or no 'date' key at all.
RawDates ==
    {[kind |-> "iso", day |-> FirstDay(StartYm) + 4],
     [kind |-> "iso", day |-> FirstDay(StartYm + 1) + 9],
     [kind |-> "text", day |-> 0],
     [kind |-> "absent", day |-> 0]}

\* The 'amount' of a raw record: a number, or a string that is no number.
RawAmounts ==
    {[kind |-> "number", value |-> -300], [kind |-> "text", value |-> 0]}

RawRecords == [date : RawDates, amount : RawAmounts]

\* The raw request bodies: every list of at most MaxRecords raw records.
RawBodies == UNION {[1 .. n -> RawRecords] : n \in 0 .. MaxRecords}

\* pd.to_datetime(df['date']) of one cell (errors='raise' is the default, so a
\* frame with a "text" cell never gets here).  Without any 'date' key the
\* column was filled with the integer 0 by the required-columns loop, which
\* to_datetime reads as 1970-01-01; a key missing in some records only is
\* NaN and becomes NaT.
to_datetime(date, has_date_column) ==
    IF ~has_date_column THEN [kind |-> "epoch", day |-> 0]
    ELSE IF date.kind = "iso" THEN [kind |-> "day", day |-> date.day]
    ELSE [kind |-> "NaT", day |-> 0]

\* pd.to_numeric(df['amount'], errors='coerce').fillna(0) of one cell.
to_numeric(amount) == IF amount.kind = "number" THEN amount.value ELSE 0

\* load_transaction_data on raw records: the empty DataFrame for an empty
\* list; ValueError out of pd.to_datetime when a date string does not parse;
\* otherwise one row per record, in the order of the list.
load_raw_transaction_data(transactions) ==
    IF Len(transactions) = 0
    THEN [exc |-> "none", empty |-> TRUE, rows |-> << >>]
    ELSE IF \E i \in 1 .. Len(transactions) : transactions[i].date.kind = "text"
    THEN [exc |-> "ValueError", empty |-> TRUE, rows |-> << >>]
    ELSE [exc |-> "none", empty |-> FALSE,
          rows |-> [i \in 1 .. Len(transactions) |->
                      [date |-> to_datetime(transactions[i].date,
                                    \E j \in 1 .. Len(transactions) :
                                        transactions[j].date.kind # "absent"),
                       amount |-> to_numeric(transactions[i].amount)]]]

\* ------------------------------------------------ SyntheticDataGenerator

SyntheticMonths == 12

\* datetime.now(): 2024-01-15.
Now == FirstDay(StartYm + 12) + 14

\* Two categories of the palette (base, seasonal in tenths); the noise terms
\* are taken at their mean 0 and one month's transactions of a category are
\* merged into one row.
SynthPalette ==
    << [category |-> "Bills & Utilities", base |-> 2500, seasonal |-> 11],
       [category |-> "Education", base |-> 1000, seasonal |-> 10] >>

SynthMonthRecords(month_offset) ==
    LET current_date == (Now - SyntheticMonths * 30) + month_offset * 30
        m == MonthOf(YmOfDay(current_date))
        seasonal_multiplier ==
            IF m \in {10, 11, 12} THEN 14 ELSE IF m \in {6, 7, 8} THEN 9 ELSE 10
        amount(c) == Max((c.base * c.seasonal * seasonal_multiplier) \div 100,
                         (c.base * 3) \div 10)
    IN [i \in 1 .. Len(SynthPalette) |->
            [date |-> current_date + i, amount |-> -amount(SynthPalette[i]),
             category |-> SynthPalette[i].category]]
       \o << [date |-> current_date + 1, amount |-> 50000, category |-> "Income"] >>

RECURSIVE SynthRecords(_)
SynthRecords(months) ==
    IF months = 0 THEN <<>>
    ELSE SynthRecords(months - 1) \o SynthMonthRecords(months - 1)

generate_synthetic_data(months) == load_transaction_data(SynthRecords(months))

\* --------------------------------------------------------- PatternAnalyzer

ExpenseRows(df) == {i \in 1 .. Len(df) : df[i].expense_amount > 0}

\* Months with at least one expense row, ascending, and their totals:
\* df[df.expense_amount > 0].groupby(period)['expense_amount'].sum().
ExpenseMonths(df) == SetToSortedSeq({df[i].ym : i \in ExpenseRows(df)})
MonthTotal(df, ym) == SumExpenses(df, {i \in ExpenseRows(df) : df[i].ym = ym})
MonthlyExpenses(df) ==
    LET ms == ExpenseMonths(df) IN [k \in 1 .. Len(ms) |-> MonthTotal(df, ms[k])]

\* np.polyfit(arange(n), y, 1)[0] as a fraction num/den, den > 0 for n > 1.
SlopeNum(y) ==
    LET n == Len(y)
        sx == SumSeq([k \in 1 .. n |-> k - 1])
        sy == SumSeq(y)
        sxy == SumSeq([k \in 1 .. n |-> (k - 1) * y[k]])
    IN n * sxy - sx * sy
SlopeDen(y) ==
    LET n == Len(y)
        sx == SumSeq([k \in 1 .. n |-> k - 1])
        sxx == SumSeq([k \in 1 .. n |-> (k - 1) * (k - 1)])
    IN n * sxx - sx * sx

Mean(y) == SumSeq(y) \div Len(y)
\* np.var / np.std (population), in whole rupees.
Variance(y) ==
    LET n == Len(y)
        mu == Mean(y)
    IN SumSeq([k \in 1 .. n |-> (y[k] - mu) * (y[k] - mu)]) \div n
Std(y) == ISqrt(Variance(y))

\* analyze_patterns(df)['seasonal_patterns']: calendar month -> mean expense
\* amount of the expense rows dated in it.
SeasonalPatterns(df) ==
    LET months == {MonthOf(df[i].ym) : i \in ExpenseRows(df)}
        rows(m) == {i \in ExpenseRows(df) : MonthOf(df[i].ym) = m}
    IN [m \in months |-> SumExpenses(df, rows(m)) \div Cardinality(rows(m))]

\* ---------------------------------------------------------- FeatureBuilder

\* prepare_features(df, target_month) for a target on the first day of month
\* target: six month totals, four calendar features and the trend slope.
\* The caller must not pass the empty DataFrame: df['date'] raises KeyError.
prepare_features(df, target) ==
    LET first == FirstDay(target)
        prev_month(i) == YmOfDay(first - 32 * i)
        lags == [i \in 1 .. 6 |-> MonthTotal(df, prev_month(i))]
        m == MonthOf(target)
        recent == SelectSeq(df, LAMBDA r : r.date >= first - 90)
        monthly_totals == MonthlyExpenses(recent)
        trend_slope ==
            IF Len(df) > 30 /\ Len(recent) > 1 /\ Len(monthly_totals) > 1
            THEN SlopeNum(monthly_totals) \div SlopeDen(monthly_totals)
            ELSE 0
    IN lags \o << m, Weekday(first),
                  IF m \in {10, 11, 12} THEN 1 ELSE 0,
                  IF m \in {6, 7, 8} THEN 1 ELSE 0,
                  trend_slope >>

\* ------------------------------------------------------- ModelBank training

\* What sklearn's fit and the R2 comparison contribute to a training call:
\* which candidate scores best and the function it has learnt.  A forest
\* answers inside the hull of its labels (here: their minimum or maximum); the
\* linear model answers mean(y) + coef * x for the first feature x.  With one
\* sample both R2 scores are nan and max() keeps the first key, random_forest.
Fits ==
    {[best |-> "random_forest", pick |-> k, coef |-> 0] : k \in {"min", "max"}}
    \cup {[best |-> "linear_regression", pick |-> "none", coef |-> c] : c \in {-1, 1}}

SeqMin(y) == CHOOSE v \in {y[k] : k \in 1 .. Len(y)} : \A k \in 1 .. Len(y) : v <= y[k]
SeqMax(y) == CHOOSE v \in {y[k] : k \in 1 .. Len(y)} : \A k \in 1 .. Len(y) : v >= y[k]

best_model_name(fit, n_samples) ==
    IF n_samples = 1 THEN "random_forest" ELSE fit.best

\* The fitted regressor that models['main'] holds.
FittedModel(fit, X_train, y_train) ==
    IF best_model_name(fit, Len(y_train)) = "random_forest"
    THEN [kind |-> "random_forest",
          base |-> IF fit.pick = "max" THEN SeqMax(y_train) ELSE SeqMin(y_train),
          coef |-> 0]
    ELSE [kind |-> "linear_regression", base |-> Mean(y_train), coef |-> fit.coef]

\* StandardScaler().fit(X_train), first feature: mean and population standard
\* deviation (a zero deviation is replaced by 1).
FittedScaler(X_train) ==
    LET x == [k \in 1 .. Len(X_train) |-> X_train[k][1]]
    IN [mean |-> Mean(x), scale |-> IF Std(x) = 0 THEN 1 ELSE Std(x)]

\* The dict _train_statistical_model stores in models['statistical'] (lines
\* 248-259).  daily_average is total_expenses / date_range_days and
\* monthly_average 30 times that; both are read off the stored totals.
StatisticalModel(rows) ==
    LET expenses == ExpenseRows(rows)
        dates == {rows[i].date : i \in expenses}
        first == CHOOSE d \in dates : \A e \in dates : d <= e
        last == CHOOSE d \in dates : \A e \in dates : d >= e
    IN [kind |-> "statistical",
        total_expenses |-> SumExpenses(rows, expenses),
        transaction_count |-> Cardinality(expenses),
        date_range_days |-> Max(1, (last - first) + 1)]

\* The linear trend fitted for one category from its monthly totals y.
CategoryModel(y) ==
    LET n == Len(y)
        num == SlopeNum(y)
        den == SlopeDen(y)
        sx == SumSeq([k \in 1 .. n |-> k - 1])
    IN [type |-> "linear_trend", slope_num |-> num, slope_den |-> den,
        intercept |-> (SumSeq(y) * den - num * sx) \div (n * den),
        average |-> Mean(y), std |-> Std(y), last_value |-> y[n],
        months_trained |-> n]

CategoryRows(df, category) ==
    SelectSeq(df, LAMBDA r : r.category = category /\ r.expense_amount > 0)

\* The categories train_category_models fits: at least 10 expense rows over at
\* least 4 months, never 'Income'.
TrainableCategories(df) ==
    {c \in {df[i].category : i \in ExpenseRows(df)} :
        /\ c # "Income"
        /\ Len(CategoryRows(df, c)) >= 10
        /\ Len(ExpenseMonths(CategoryRows(df, c))) >= 4}

\* The trend models train_category_models fits from the rows.
CategoryFits(rows) ==
    [c \in TrainableCategories(rows) |->
        CategoryModel(MonthlyExpenses(CategoryRows(rows, c)))]

\* The month periods of all rows, ascending: sorted(df['year_month'].unique()).
unique_months(df) == SetToSortedSeq({df[i].ym : i \in 1 .. Len(df)})

\* The tier thresholds with their comparisons off by one.
TierOffByOne(n) ==
    IF n <= 3 THEN "statistical"
    ELSE IF n <= 7 THEN "simplified_ml"
    ELSE "ensemble_ml"

\* The branch train_prediction_models takes for a history of n months.
Tier(n) ==
    IF n < 3 THEN "statistical"
    ELSE IF n < 7 THEN "simplified_ml"
    ELSE "ensemble_ml"

\* A DataFrame as the engine reads it: the rows summarised into the groupby
\* results, feature vectors and fits that the training and forecasting
\* methods compute from them.
DataFrame(rows) ==
    LET months == unique_months(rows)
        targets == SelectSeq([k \in 1 .. Max(0, Len(months) - 6) |-> months[k + 6]],
                             LAMBDA ym : MonthTotal(rows, ym) > 0)
    IN [empty |-> rows = << >>,
        months |-> Len(months),
        has_expenses |-> ExpenseRows(rows) # {},
        seasonal_patterns |-> SeasonalPatterns(rows),
        statistical |-> IF ExpenseRows(rows) = {} THEN << >>
                        ELSE << StatisticalModel(rows) >>,
        \* lines 482-496: one example per month from the 7th on with spending
        X_train |-> [k \in 1 .. Len(targets) |->
                               prepare_features(rows, targets[k])],
        y_train |-> [k \in 1 .. Len(targets) |->
                               MonthTotal(rows, targets[k])],
        category_fits |-> CategoryFits(rows),
        features |-> IF rows = << >> THEN << >>
                     ELSE [t \in Targets |-> prepare_features(rows, t)],
        monthly |-> MonthlyExpenses(rows),
        \* lines 749-756: mean monthly total of every expense category
        category_means |->
            [c \in {rows[i].category : i \in ExpenseRows(rows)} \ {"Income"} |->
                Mean(MonthlyExpenses(CategoryRows(rows, c)))]]

\* save_models: the pickled blob that replaces the model file.
save_models(self) ==
    << [models |-> self.models, scalers |-> self.scalers,
        category_models |-> self.category_models,
        seasonal_patterns |-> self.seasonal_patterns,
        timestamp |-> Now] >>

\* The DataFrames of a run, built once: load_transaction_data of every
\* request body, and generate_synthetic_data(12) for train_prediction_models.
VARIABLE frames

SyntheticRequest == [profile |-> "synthetic", months |-> SyntheticMonths]
AllFrames ==
    [req \in Requests \cup {SyntheticRequest} |->
        IF req = SyntheticRequest
        THEN DataFrame(generate_synthetic_data(SyntheticMonths))
        ELSE DataFrame(load_transaction_data(Transactions(req)))]
SyntheticFrame == frames[SyntheticRequest]

\* The dict a regression training returns / the empty dict / the statistical
\* dict, as (shape, success, model_type, training_samples).
TrainResult(shape, success, model_type, n) ==
    [shape |-> shape, success |-> success, model_type |-> model_type,
     training_samples |-> n]

\* _train_statistical_model(df): the predictor and the returned dict.
train_statistical_model(self, df) ==
    IF ~df.has_expenses
    THEN [self |-> self, disk |-> << >>, tier |-> "statistical",
          result |-> TrainResult("dict", "False", "none", 0)]
    ELSE [self |-> [self EXCEPT !.models =
                       [k \in DOMAIN self.models \cup {"statistical"} |->
                           IF k = "statistical" THEN df.statistical[1]
                           ELSE self.models[k]]],
          disk |-> << >>, tier |-> "statistical",
          result |-> TrainResult("dict", "True", "statistical", 0)]

\* train_category_models(df): entries are added or overwritten, none removed.
train_category_models(category_models, df) ==
    [c \in DOMAIN category_models \cup DOMAIN df.category_fits |->
        IF c \in DOMAIN df.category_fits THEN df.category_fits[c]
        ELSE category_models[c]]

\* The DataFrame train_prediction_models works on: an empty one is replaced
\* by twelve months of synthetic data (lines 453-455).
TrainingFrame(df) == IF df.empty THEN SyntheticFrame ELSE df

\* Lines 498-566 of train_prediction_models: the regression fit on the
\* examples of df, the category models and the save.
train_regression(self, disk, df, fit, tier) ==
    IF Len(df.X_train) = 0
    THEN [self |-> self, disk |-> disk, tier |-> tier,
          result |-> TrainResult("empty", "absent", "none", 0)]
    ELSE [self |-> [self EXCEPT
                      !.scalers = [k \in {"linear_regression"} |->
                                      FittedScaler(df.X_train)],
                      !.models = [k \in DOMAIN self.models \cup {"main"} |->
                                     IF k = "main"
                                     THEN FittedModel(fit, df.X_train, df.y_train)
                                     ELSE self.models[k]],
                      !.category_models =
                          train_category_models(self.category_models, df)],
          disk |-> disk, tier |-> tier,
          result |-> TrainResult("dict", "absent",
                                 best_model_name(fit, Len(df.y_train)),
                                 Len(df.X_train))]

\* self.save_models() at the end of a regression training that fitted.
SaveAfter(tr) ==
    IF tr.result.shape = "dict" THEN [tr EXCEPT !.disk = save_models(tr.self)]
    ELSE tr

\* Lines 460-566 of train_prediction_models on the frame it trains on.
train_on(self, disk, df, fit) ==
    IF Tier(df.months) = "statistical"
    THEN [train_statistical_model(
              [self EXCEPT !.seasonal_patterns = df.seasonal_patterns,
                           !.use_statistical_prediction = "True"], df)
          EXCEPT !.disk = disk]
    ELSE IF Tier(df.months) = "simplified_ml"
    THEN SaveAfter(train_regression(
              [self EXCEPT !.seasonal_patterns = df.seasonal_patterns,
                           !.use_statistical_prediction = "False"],
              disk, df, fit, "simplified_ml"))
    ELSE SaveAfter(train_regression(
              [self EXCEPT !.seasonal_patterns = df.seasonal_patterns],
              disk, df, fit, "ensemble_ml"))

\* train_prediction_models(df) on predictor self with model file disk; fit is
\* what sklearn contributes.  Yields the predictor, the file, the returned
\* dict and the tier branch taken.
train_prediction_models(self, disk, df, fit) ==
    train_on(self, disk, TrainingFrame(df), fit)

\* load_models(): the file is missing, or pickle.load raises on content that
\* cannot be deserialized (intact = FALSE) and the except clause answers False;
\* otherwise the four fields are taken from the file.  The saved timestamp is
\* not read.
load_models(self, disk, intact) ==
    IF disk = <<>> \/ ~intact THEN [self |-> self, ok |-> FALSE]
    ELSE [self |-> [self EXCEPT !.models = disk[1].models,
                                !.scalers = disk[1].scalers,
                                !.category_models = disk[1].category_models,
                                !.seasonal_patterns = disk[1].seasonal_patterns],
          ok |-> TRUE]

\* initialize(): load_models, then the tier flag is set to False.
initialize(self, disk, intact) ==
    [load_models(self, disk, intact).self EXCEPT !.use_statistical_prediction = "False"]

\* ExpensePredictor(): the state __init__ leaves; the tier flag is not an
\* attribute of the object yet.
NewPredictor ==
    [models |-> << >>, scalers |-> << >>, category_models |-> << >>,
     seasonal_patterns |-> << >>, use_statistical_prediction |-> "unset"]

\* --------------------------------------------------------------- Forecaster

\* PredictionResult; confidence in percent, seasonal_factor as num/den.
PredictionResult(amount, confidence, trend, sf_num, sf_den, hist, lo, hi) ==
    [predicted_amount |-> amount, confidence |-> confidence, trend |-> trend,
     seasonal_factor |-> [num |-> sf_num, den |-> sf_den],
     historical_average |-> hist, prediction_range |-> << lo, hi >>]

\* The value of a forecasting call that raised instead of returning.
NoResult == PredictionResult(0, 0, "raised", 1, 1, 0, 0, 0)

\* A statistical forecast that returns the stored total as it is, without
\* scaling the daily average to 30 days.
predict_stored_total(self) ==
    IF "statistical" \notin DOMAIN self.models
    THEN PredictionResult(0, 10, "unknown", 1, 1, 0, 0, 0)
    ELSE PredictionResult(self.models["statistical"].total_expenses,
                          Min(60, 30 + self.models["statistical"].transaction_count),
                          "stable", 1, 1,
                          self.models["statistical"].total_expenses
                              \div self.models["statistical"].date_range_days,
                          0, self.models["statistical"].total_expenses)

\* _predict_statistical(target_date).
predict_statistical(self) ==
    IF "statistical" \notin DOMAIN self.models
    THEN PredictionResult(0, 10, "unknown", 1, 1, 0, 0, 0)
    ELSE LET stats == self.models["statistical"]
             predicted_amount ==
                 (stats.total_expenses * 30) \div stats.date_range_days
             confidence == Min(60, 30 + stats.transaction_count)
             uncertainty == (predicted_amount * 4) \div 10
         IN PredictionResult(predicted_amount, confidence, "stable", 1, 1,
                             stats.total_expenses \div stats.date_range_days,
                             Max(0, predicted_amount - uncertainty),
                             predicted_amount + uncertainty)

\* 'linear_regression' in str(type(model)): the class of the linear model
\* prints as <class 'sklearn.linear_model._base.LinearRegression'>, the forest
\* as <class 'sklearn.ensemble._forest.RandomForestRegressor'>; neither text
\* holds the substring linear_regression.
TypeNameHasLinearRegression(model) == FALSE

\* model.predict on the feature vector, after the scaler where the code
\* applies it.
ModelPredict(self, features) ==
    LET model == self.models["main"]
        x == IF TypeNameHasLinearRegression(model)
                /\ "linear_regression" \in DOMAIN self.scalers
             THEN LET sc == self.scalers["linear_regression"]
                  IN (features[1] - sc.mean) \div sc.scale
             ELSE features[1]
    IN model.base + model.coef * x

\* np.mean(list(self.seasonal_patterns.values())).
SeasonalAvg(seasonal_patterns) ==
    LET ms == SetToSortedSeq(DOMAIN seasonal_patterns)
    IN SumSeq([k \in 1 .. Len(ms) |-> seasonal_patterns[ms[k]]]) \div Len(ms)

\* The seasonal factor of predict_next_month as num/den for a raw prediction.
SeasonalFactor(seasonal_patterns, month, predicted_amount) ==
    LET raw == IF month \in DOMAIN seasonal_patterns
               THEN seasonal_patterns[month] ELSE 1
        seasonal_avg == IF DOMAIN seasonal_patterns # {}
                        THEN SeasonalAvg(seasonal_patterns)
                        ELSE predicted_amount
    IN IF raw > 0 /\ seasonal_avg > 0
       THEN [num |-> raw, den |-> seasonal_avg]
       ELSE [num |-> 1, den |-> 1]

\* Lines 657-693 of predict_next_month: confidence, trend and range for the
\* seasonally adjusted amount.
FinishPrediction(predicted_amount, sf, historical_monthly) ==
    LET n == Len(historical_monthly)
        \* variance / 0.0 is inf (or nan for 0 / 0) in numpy: the clamp then
        \* yields 0.1, or 0.9 when min() meets the nan.
        confidence ==
            IF n > 1
            THEN IF predicted_amount = 0
                 THEN (IF Variance(historical_monthly) > 0 THEN 10 ELSE 90)
                 ELSE Max(10, Min(90, 100 - ((Variance(historical_monthly) * 100)
                                  \div (predicted_amount * predicted_amount))))
            ELSE 50
        trend ==
            IF n >= 3
            THEN IF SlopeNum(historical_monthly) > 500 * SlopeDen(historical_monthly)
                 THEN "increasing"
                 ELSE IF SlopeNum(historical_monthly)
                         < -500 * SlopeDen(historical_monthly)
                 THEN "decreasing"
                 ELSE "stable"
            ELSE "stable"
        margin == (196 * (IF n > 1 THEN Std(historical_monthly)
                          ELSE (predicted_amount * 2) \div 10)) \div 100
    IN PredictionResult(predicted_amount, confidence, trend, sf.num, sf.den,
                        IF n > 0 THEN Mean(historical_monthly)
                        ELSE predicted_amount,
                        Max(0, predicted_amount - margin),
                        predicted_amount + margin)

\* Lines 647-655: the raw model output times its seasonal factor.
Adjusted(raw, sf, historical_monthly) ==
    FinishPrediction((raw * sf.num) \div sf.den, sf, historical_monthly)

\* The regression branch of predict_next_month (lines 631-693) on a non-empty
\* DataFrame.
AdjustRaw(self, raw, df, target) ==
    Adjusted(raw, SeasonalFactor(self.seasonal_patterns, MonthOf(target), raw),
             df.monthly)
predict_main(self, df, target) ==
    AdjustRaw(self, ModelPredict(self, df.features[target]), df, target)

\* What a forecasting call yields: the predictor and model file it leaves,
\* its result, the exception that left it (exc), the model that produced the
\* result (source) and the training the call ran, if any.
Outcome(tr, training, result, exc, source) ==
    [self |-> tr.self, disk |-> tr.disk, result |-> result, exc |-> exc,
     source |-> source, training |-> training]

\* Lines 623-693 of predict_next_month, after the training of an untrained
\* predictor (tr: the predictor and file at that point).
dispatch(tr, training, df, target) ==
    IF tr.self.use_statistical_prediction = "unset"
    THEN Outcome(tr, training, NoResult, "AttributeError", "none")
    ELSE IF tr.self.use_statistical_prediction = "True"
            /\ "statistical" \in DOMAIN tr.self.models
    THEN Outcome(tr, training, predict_statistical(tr.self), "none", "statistical")
    ELSE IF "main" \notin DOMAIN tr.self.models
    THEN Outcome(tr, training, PredictionResult(0, 0, "unknown", 1, 1, 0, 0, 0),
                 "none", "none")
    ELSE IF df.empty
    THEN Outcome(tr, training, NoResult, "KeyError", "none")
    ELSE Outcome(tr, training, predict_main(tr.self, df, target), "none", "main")

TrainedFirst(tr, df, target) ==
    dispatch(tr, << [tier |-> tr.tier, result |-> tr.result] >>, df, target)

\* predict_next_month without the guard of line 619: it trains on every call.
predict_always_training(self, disk, df, target, fit) ==
    TrainedFirst(train_prediction_models(self, disk, df, fit), df, target)

\* predict_next_month(df, target_date): trains first when the ModelBank holds
\* neither model, then dispatches on the tier flag.
predict_next_month(self, disk, df, target, fit) ==
    IF "main" \notin DOMAIN self.models /\ "statistical" \notin DOMAIN self.models
    THEN TrainedFirst(train_prediction_models(self, disk, df, fit), df, target)
    ELSE dispatch([self |-> self, disk |-> disk], << >>, df, target)

\* ------------------------------------------------------- CategoryForecaster

\* The prediction of one category that has a trend model, before
\* normalisation (lines 712-746).
TrendPrediction(self, category, month) ==
    LET model_info == self.category_models[category]
        extrapolated == model_info.intercept
                        + (model_info.slope_num * model_info.months_trained)
                          \div model_info.slope_den
        raw == IF month \in DOMAIN self.seasonal_patterns
               THEN self.seasonal_patterns[month] ELSE 1
        seasonal_avg == SeasonalAvg(self.seasonal_patterns)
        adjusted ==
            IF raw > 0 /\ DOMAIN self.seasonal_patterns # {} /\ seasonal_avg > 0
            THEN (extrapolated * raw) \div seasonal_avg
            ELSE extrapolated
        confidence ==
            Max(30, Min(90, IF model_info.average > 0
                            THEN 100 - (model_info.std * 100) \div model_info.average
                            ELSE 50))
        trend ==
            IF model_info.slope_num > 100 * model_info.slope_den THEN "increasing"
            ELSE IF model_info.slope_num < -100 * model_info.slope_den
            THEN "decreasing"
            ELSE "stable"
    IN [category |-> category, value |-> Max(0, adjusted),
        confidence |-> confidence, trend |-> trend]

\* The prediction of a category without a trend model: its mean monthly total
\* (lines 754-767); a mean of 0 or less adds no prediction.
AveragePrediction(df, category) ==
    [category |-> category, value |-> df.category_means[category],
     confidence |-> 60, trend |-> "stable"]

RECURSIVE SumValues(_)
\* sum(category_totals.values()).
SumValues(S) ==
    IF S = {} THEN 0
    ELSE LET p == CHOOSE x \in S : TRUE IN p.value + SumValues(S \ {p})

RECURSIVE SortAscending(_)
\* The same sort without reverse=True: smallest amount first.
SortAscending(S) ==
    IF S = {} THEN <<>>
    ELSE LET low == CHOOSE x \in S :
                        \A y \in S : x.predicted_amount.num <= y.predicted_amount.num
         IN <<low>> \o SortAscending(S \ {low})

RECURSIVE SortDescending(_)
\* predictions.sort(key=predicted_amount, reverse=True) of entries with a
\* common denominator.
SortDescending(S) ==
    IF S = {} THEN <<>>
    ELSE LET top == CHOOSE x \in S :
                        \A y \in S : x.predicted_amount.num >= y.predicted_amount.num
         IN <<top>> \o SortDescending(S \ {top})

\* Lines 709-782 of predict_by_category on a non-empty DataFrame, for the
\* aggregate total_predicted.
CategoryPredictions(self, df, target, total_predicted) ==
    LET modelled == DOMAIN self.category_models
        historical == DOMAIN df.category_means
        trend_preds == {TrendPrediction(self, c, MonthOf(target)) : c \in modelled}
        avg_preds == {p \in {AveragePrediction(df, c) :
                                c \in {h \in historical :
                                          h # "Income" /\ h \notin modelled}} :
                         p.value > 0}
        preds == trend_preds \cup avg_preds
        actual_total == SumValues(preds)
        normalise == actual_total > 0 /\ total_predicted > 0
        final(p) ==
            [category |-> p.category, confidence |-> p.confidence,
             trend |-> p.trend,
             predicted_amount |->
                 IF normalise
                 THEN [num |-> p.value * total_predicted, den |-> actual_total]
                 ELSE [num |-> p.value, den |-> 1],
             percentage_of_total |->
                 IF normalise
                 THEN [num |-> p.value * 100, den |-> actual_total]
                 ELSE [num |-> 0, den |-> 1]]
    IN SortDescending({final(p) : p \in preds})

\* Lines 709-782 of predict_by_category after the aggregate prediction
\* overall; aggregate keeps that prediction beside the list.
categories_after(overall, df, target) ==
    IF overall.exc # "none"
    THEN [overall EXCEPT !.result = << >>] @@ [aggregate |-> NoResult]
    ELSE IF df.empty
    THEN [overall EXCEPT !.result = << >>, !.exc = "KeyError"]
         @@ [aggregate |-> overall.result]
    ELSE [overall EXCEPT
            !.result = CategoryPredictions(overall.self, df, target,
                                           overall.result.predicted_amount)]
         @@ [aggregate |-> overall.result]

\* predict_by_category(df, target_date): the aggregate first, then the
\* category list; an exception of either part leaves the call.
predict_by_category(self, disk, df, target, fit) ==
    categories_after(predict_next_month(self, disk, df, target, fit), df, target)

\* -------------------------------------------------------- SpendingStability

\* The single-category histories that are scored: months of Food spending,
\* the k-th month totalling base + step * (k - 1) in two transactions; step 0
\* gives identical monthly totals.
Histories ==
    [months : 1 .. MaxMonths, base : {3000, 4000, 5500, 40000},
     step : {-300, 0, 50, 300}]

HistoryMonth(h, k) ==
    << Txn(StartYm + k - 1, 20, -300, "Food"),
       Txn(StartYm + k - 1, 5, -(h.base + h.step * (k - 1) - 300), "Food") >>

RECURSIVE HistoryRecords(_, _)
HistoryRecords(h, k) ==
    IF k = 0 THEN << >> ELSE HistoryRecords(h, k - 1) \o HistoryMonth(h, k)

RECURSIVE SortByDate(_)
\* df.sort_values('date').
SortByDate(rows) ==
    IF rows = << >> THEN << >>
    ELSE LET i == CHOOSE j \in 1 .. Len(rows) :
                      \A k \in 1 .. Len(rows) :
                          rows[j].date < rows[k].date
                          \/ (rows[j].date = rows[k].date /\ j <= k)
         IN << rows[i] >>
            \o SortByDate([k \in 1 .. Len(rows) - 1 |->
                               IF k < i THEN rows[k] ELSE rows[k + 1]])

\* FinancialHealthScorer._prepare_transaction_data: expense_amount and
\* year_month per record, the rows sorted by date.
prepare_transaction_data(transactions) ==
    SortByDate([i \in 1 .. Len(transactions) |-> Row(transactions[i])])

\* df.groupby('year_month')['expense_amount'].sum(): every month of the
\* frame, a month without expense rows with total 0.
GroupedMonthly(df) ==
    LET ms == SetToSortedSeq({df[i].ym : i \in 1 .. Len(df)})
    IN [k \in 1 .. Len(ms) |->
           SumExpenses(df, {i \in 1 .. Len(df) : df[i].ym = ms[k]})]

\* pandas Series.std(): the sample standard deviation (ddof = 1), n > 1.
SampleStd(y) ==
    LET n == Len(y)
        mu == Mean(y)
    IN ISqrt(SumSeq([k \in 1 .. n |-> (y[k] - mu) * (y[k] - mu)]) \div (n - 1))

\* self.benchmarks['spending_variance'], in percent.
spending_variance == [excellent |-> 10, good |-> 15, fair |-> 25, poor |-> 35]

\* A HealthMetric as (status, score, current_value, trend); current_value is
\* the coefficient of variation std/mean, << >> where the field is None.
HealthMetric(status, score, current_value, trend) ==
    [status |-> status, score |-> score, current_value |-> current_value,
     trend |-> trend]

\* _create_default_metric: current_value and trend keep the default None.
create_default_metric == HealthMetric("unknown", 50, << >>, "None")

\* _calculate_spending_stability_score(df).
calculate_spending_stability_score(df) ==
    LET monthly_expenses == GroupedMonthly(df)
        expense_mean == Mean(monthly_expenses)
        expense_std == SampleStd(monthly_expenses)
        cv == << [num |-> expense_std, den |-> expense_mean] >>
    IN IF Len(monthly_expenses) < 2 THEN create_default_metric
       ELSE IF SumSeq(monthly_expenses) = 0 THEN create_default_metric
       ELSE IF 100 * expense_std <= spending_variance.excellent * expense_mean
       THEN HealthMetric("excellent", 100, cv, "stable")
       ELSE IF 100 * expense_std <= spending_variance.good * expense_mean
       THEN HealthMetric("good", 85, cv, "stable")
       ELSE IF 100 * expense_std <= spending_variance.fair * expense_mean
       THEN HealthMetric("fair", 70, cv, "stable")
       ELSE IF 100 * expense_std <= spending_variance.poor * expense_mean
       THEN HealthMetric("poor", 50, cv, "stable")
       ELSE HealthMetric("critical", 25, cv, "stable")

\* A direction test without the band of 100: any slope that is not negative
\* counts as increasing.
direction_without_band(slope_num, slope_den) ==
    IF slope_num >= 0 THEN "increasing" ELSE "decreasing"

\* 'increasing' if slope > 100 else 'decreasing' if slope < -100 else
\* 'stable', for the slope slope_num / slope_den with slope_den > 0.
direction(slope_num, slope_den) ==
    IF slope_num > 100 * slope_den THEN "increasing"
    ELSE IF slope_num < -100 * slope_den THEN "decreasing"
    ELSE "stable"

\* analyze_patterns(df)['overall_trend']['direction'] (lines 321-347).
overall_trend(df) ==
    IF Len(df) = 0 \/ ExpenseRows(df) = {} THEN "stable"
    ELSE IF Len(MonthlyExpenses(df)) > 1
    THEN direction(SlopeNum(MonthlyExpenses(df)), SlopeDen(MonthlyExpenses(df)))
    ELSE "stable"

\* ------------------------------------------------- synthetic timestamps

\* Transactions generated in one run of generate_synthetic_data, and the
\* distinct timestamps a draw can give; fewer timestamps than transactions,
\* so that the draws of the last transaction all collide.
MaxTransactions == 4
MaxSlots == 3

\* `while attempts < 50`.
MaxAttempts == 50

Slots == 1 .. MaxSlots

\* A while loop without the limit on attempts.
retry_until_unused(attempts) == TRUE

\* The loop condition of line 146.
retry(attempts) == attempts < MaxAttempts

\* The generator before its first transaction: used_dates = set(), no
\* transaction_date drawn yet (0).
NoSynth ==
    [pc |-> "for", made |-> 0, attempts |-> 0, transaction_date |-> 0,
     used_dates |-> {}, dates |-> << >>]

\* ------------------------------------------------------------------- state

VARIABLES
    synth,                      \* the timestamp loop of generate_synthetic_data
    health,                     \* last history scored, its stability metric and trend direction
    ingest,                     \* last raw body given to load_transaction_data, and its result
    models,                     \* self.models: 'main' and / or 'statistical'
    scalers,                    \* self.scalers
    category_models,            \* self.category_models
    seasonal_patterns,          \* self.seasonal_patterns
    use_statistical_prediction, \* self._use_statistical_prediction, or "unset"
    disk,                       \* expense_prediction_models.pkl: << >> or << blob >>
    last,                       \* the last call on the predictor and what it gave
    trail,                      \* the tiers of the training calls so far
    calls                       \* number of calls made

vars == << models, scalers, category_models, seasonal_patterns,
           use_statistical_prediction, disk, last, trail, calls, frames, ingest, health, synth >>

Self ==
    [models |-> models, scalers |-> scalers, category_models |-> category_models,
     seasonal_patterns |-> seasonal_patterns,
     use_statistical_prediction |-> use_statistical_prediction]

SetSelf(s) ==
    /\ models' = s.models
    /\ scalers' = s.scalers
    /\ category_models' = s.category_models
    /\ seasonal_patterns' = s.seasonal_patterns
    /\ use_statistical_prediction' = s.use_statistical_prediction

NoRequest == [profile |-> "none", months |-> 0]
NoTrain == TrainResult("none", "absent", "none", 0)

\* The record of one call: its operation and arguments, the exception that
\* left it (or "none"), and its value.  train and tier are the returned dict
\* and the branch of the training the call ran: the call itself for "train",
\* the training of an untrained predictor for a forecasting call.  loaded is
\* "none" except for initialize.
Call(op, req, target, exc, prediction, categories, train, source, tier) ==
    [op |-> op, req |-> req, target |-> target, exc |-> exc,
     prediction |-> prediction, categories |-> categories, train |-> train,
     source |-> source, tier |-> tier, loaded |-> "none"]

\* The tiers of the training calls, as far as the next prediction depends on
\* them: "small" after a call with fewer than 3 months, "small_then_large"
\* once a call with 7 or more months has succeeded after it.
NextTrail(t, tr) ==
    IF tr.tier = "statistical" THEN "small"
    ELSE IF tr.tier = "simplified_ml" THEN "none"
    ELSE IF tr.result.shape = "dict" /\ t \in {"small", "small_then_large"}
    THEN "small_then_large"
    ELSE t

\* The fits a request can consult: regression runs only on seven or more
\* months (the synthetic history of an empty request has twelve).
FitsFor(req) ==
    IF req.profile = "empty" \/ req.months >= 7 THEN Fits
    ELSE {[best |-> "random_forest", pick |-> "min", coef |-> 0]}

\* A forecasting call consults a fit only when it has to train first.
FitsForPredict(req) ==
    IF "main" \in DOMAIN models \/ "statistical" \in DOMAIN models
    THEN {[best |-> "random_forest", pick |-> "min", coef |-> 0]}
    ELSE FitsFor(req)

NoIngest == [raw |-> << >>, result |-> load_raw_transaction_data(<< >>)]

NoHealth ==
    [history |-> [months |-> 0, base |-> 0, step |-> 0],
     metric |-> create_default_metric, direction |-> "stable"]

Init ==
    /\ models = NewPredictor.models
    /\ scalers = NewPredictor.scalers
    /\ category_models = NewPredictor.category_models
    /\ seasonal_patterns = NewPredictor.seasonal_patterns
    /\ use_statistical_prediction = NewPredictor.use_statistical_prediction
    /\ disk = << >>
    /\ last = Call("construct", NoRequest, 0, "none", NoResult, << >>, NoTrain,
                   "none", "none")
    /\ trail = "none"
    /\ calls = 0
    /\ frames = AllFrames
    /\ ingest = NoIngest
    /\ health = NoHealth
    /\ synth = NoSynth

\* The process restarts: a new ExpensePredictor(); the model file stays.
Construct ==
    /\ calls < MaxCalls
    /\ SetSelf(NewPredictor)
    /\ last' = Call("construct", NoRequest, 0, "none", NoResult, << >>, NoTrain,
                    "none", "none")
    /\ trail' = "none"
    /\ calls' = calls + 1
    /\ UNCHANGED << disk, frames, ingest, health, synth >>

\* The answer of load_models, as Python prints it.
Loaded(self, file, intact) ==
    IF load_models(self, file, intact).ok THEN "True" ELSE "False"

\* await predictor.initialize(); last.loaded is what load_models answered.
Initialize ==
    /\ calls < MaxCalls
    /\ \E intact \in BOOLEAN :
           /\ SetSelf(initialize(Self, disk, intact))
           /\ last' = [Call("initialize", NoRequest, 0, "none", NoResult, << >>,
                             NoTrain, "none", "none")
                          EXCEPT !.loaded = Loaded(Self, disk, intact)]
           /\ trail' = IF load_models(Self, disk, intact).ok THEN "none" ELSE trail
    /\ calls' = calls + 1
    /\ UNCHANGED << disk, frames, ingest, health, synth >>

\* predictor.save_models()
SaveModels ==
    /\ calls < MaxCalls
    /\ disk' = save_models(Self)
    /\ last' = Call("save_models", NoRequest, 0, "none", NoResult, << >>, NoTrain,
                    "none", "none")
    /\ calls' = calls + 1
    /\ UNCHANGED << models, scalers, category_models, seasonal_patterns,
                    use_statistical_prediction, trail, frames, ingest, health, synth >>

\* The state a training call leaves.
AfterTrain(req, tr) ==
    /\ SetSelf(tr.self)
    /\ disk' = tr.disk
    /\ last' = Call("train", req, 0, "none", NoResult, << >>, tr.result,
                    "none", tr.tier)
    /\ trail' = NextTrail(trail, tr)

\* predictor.train_prediction_models(load_transaction_data(transactions))
Train(req, fit) ==
    /\ calls < MaxCalls
    /\ AfterTrain(req, train_prediction_models(Self, disk, frames[req], fit))
    /\ calls' = calls + 1
    /\ UNCHANGED << frames, ingest, health, synth >>

\* The state a forecasting call leaves.
AfterPredict(op, req, target, r, prediction, categories) ==
    /\ SetSelf(r.self)
    /\ disk' = r.disk
    /\ last' = Call(op, req, target, r.exc, prediction, categories,
                    IF r.training = << >> THEN NoTrain ELSE r.training[1].result,
                    r.source,
                    IF r.training = << >> THEN "none" ELSE r.training[1].tier)
    /\ trail' = IF r.training = << >> THEN trail
                ELSE NextTrail(trail, r.training[1])

AfterPredictNextMonth(req, target, r) ==
    AfterPredict("predict_next_month", req, target, r, r.result, << >>)

\* predictor.predict_next_month(load_transaction_data(transactions), target)
PredictNextMonth(req, target) ==
    /\ calls < MaxCalls
    /\ \E fit \in FitsForPredict(req) :
           AfterPredictNextMonth(req, target,
               predict_next_month(Self, disk, frames[req], target, fit))
    /\ calls' = calls + 1
    /\ UNCHANGED << frames, ingest, health, synth >>

AfterPredictByCategory(req, target, r) ==
    AfterPredict("predict_by_category", req, target, r, r.aggregate, r.result)

\* predictor.predict_by_category(load_transaction_data(transactions), target)
PredictByCategory(req, target) ==
    /\ calls < MaxCalls
    /\ \E fit \in FitsForPredict(req) :
           AfterPredictByCategory(req, target,
               predict_by_category(Self, disk, frames[req], target, fit))
    /\ calls' = calls + 1
    /\ UNCHANGED << frames, ingest, health, synth >>

Next ==
    \/ Construct
    \/ Initialize
    \/ SaveModels
    \/ \E req \in Requests : \E fit \in FitsFor(req) : Train(req, fit)
    \/ \E req \in Requests : \E target \in Targets : PredictNextMonth(req, target)
    \/ \E req \in Requests : \E target \in Targets : PredictByCategory(req, target)

Spec == Init /\ [][Next]_vars

\* predictor.load_transaction_data(transactions) on a raw request body; the
\* function keeps no state, so a run applies it once.
LoadTransactionData(raw) ==
    /\ ingest = NoIngest
    /\ ingest' = [raw |-> raw, result |-> load_raw_transaction_data(raw)]
    /\ UNCHANGED << models, scalers, category_models, seasonal_patterns,
                    use_statistical_prediction, disk, last, trail, calls, frames,
                    health, synth >>

NextIngest == \E raw \in RawBodies : LoadTransactionData(raw)

\* load_transaction_data applied to every raw request body.
IngestSpec == Init /\ [][NextIngest]_vars

\* The spending-stability metric of the health scorer and the overall trend
\* of analyze_patterns for one history; neither keeps state, so a run scores
\* one history.
ScoreHistory(h) ==
    /\ health = NoHealth
    /\ health' =
          [history |-> h,
           metric |-> calculate_spending_stability_score(
                          prepare_transaction_data(HistoryRecords(h, h.months))),
           direction |-> overall_trend(
                             load_transaction_data(HistoryRecords(h, h.months)))]
    /\ UNCHANGED << models, scalers, category_models, seasonal_patterns,
                    use_statistical_prediction, disk, last, trail, calls, frames,
                    ingest, synth >>

NextHealth == \E h \in Histories : ScoreHistory(h)

\* Both computations applied to every history.
HealthSpec == Init /\ [][NextHealth]_vars

SynthUnchanged ==
    UNCHANGED << models, scalers, category_models, seasonal_patterns,
                 use_statistical_prediction, disk, last, trail, calls, frames,
                 ingest, health >>

\* `for i in range(num_transactions)`: the next transaction starts with
\* attempts = 0, or the generation is complete.
NextTransaction ==
    /\ synth.pc = "for"
    /\ synth' = IF synth.made < MaxTransactions
                THEN [synth EXCEPT !.pc = "while", !.attempts = 0]
                ELSE [synth EXCEPT !.pc = "done"]
    /\ SynthUnchanged

\* One pass of the while body (lines 147-158): a timestamp is drawn; an
\* unused one is recorded and ends the loop, a used one costs an attempt.
Draw(slot) ==
    /\ synth.pc = "while"
    /\ retry(synth.attempts)
    /\ synth' = IF slot \notin synth.used_dates
                THEN [synth EXCEPT !.transaction_date = slot,
                                   !.used_dates = @ \cup {slot},
                                   !.pc = "append"]
                ELSE [synth EXCEPT !.transaction_date = slot,
                                   !.attempts = @ + 1]
    /\ SynthUnchanged

\* The loop condition fails: the loop is left with the last drawn timestamp.
GiveUp ==
    /\ synth.pc = "while"
    /\ ~retry(synth.attempts)
    /\ synth' = [synth EXCEPT !.pc = "append"]
    /\ SynthUnchanged

\* transactions.append({'date': transaction_date, ...}) (lines 169-174).
AppendTransaction ==
    /\ synth.pc = "append"
    /\ synth' = [synth EXCEPT !.dates = Append(@, synth.transaction_date),
                              !.made = @ + 1, !.pc = "for"]
    /\ SynthUnchanged

NextSynth ==
    \/ NextTransaction
    \/ \E slot \in Slots : Draw(slot)
    \/ GiveUp
    \/ AppendTransaction

\* generate_synthetic_data runs on: no step of it is postponed for ever.
SynthSpec == Init /\ [][NextSynth]_vars /\ WF_vars(NextSynth)

\* -------------------------------------------------------------- properties

\* The numerators of one field of a category list; the entries of a list share
\* their denominator.
Numerators(categories, field) ==
    [k \in 1 .. Len(categories) |-> categories[k][field].num]

ReturnedCategories ==
    /\ last.op = "predict_by_category"
    /\ last.exc = "none"
    /\ last.categories # << >>

\* C1: whenever predict_by_category returns a non-empty list, the
\* predicted_amount values of the list sum to the aggregate predicted_amount
\* of predict_next_month for the same call, and the percentage_of_total
\* values sum to 100, whatever the aggregate is.
C1_CategoriesSumToAggregate ==
    ReturnedCategories =>
        /\ SumSeq(Numerators(last.categories, "predicted_amount"))
               = last.prediction.predicted_amount
                   * last.categories[1].predicted_amount.den
        /\ SumSeq(Numerators(last.categories, "percentage_of_total"))
               = 100 * last.categories[1].percentage_of_total.den

ReturnedPrediction ==
    /\ last.op = "predict_next_month"
    /\ last.exc = "none"

\* C2: every PredictionResult that predict_next_month returns, in any tier
\* and for any output of the stored model, has 0 <= confidence <= 1 and
\* 0 <= prediction_range.min <= predicted_amount <= prediction_range.max.
C2_ResultWithinRange ==
    ReturnedPrediction =>
        /\ 0 <= last.prediction.confidence
        /\ last.prediction.confidence <= 100
        /\ 0 <= last.prediction.prediction_range[1]
        /\ last.prediction.prediction_range[1] <= last.prediction.predicted_amount
        /\ last.prediction.predicted_amount <= last.prediction.prediction_range[2]

\* The number of distinct calendar months of the dataset a call trains on:
\* the request's own history, or the synthetic one when the request is empty.
MonthsTrainedOn(req) ==
    IF frames[req].empty THEN frames[SyntheticRequest].months
    ELSE frames[req].months

\* C3: the tier a training call chooses is a function of M alone, the number
\* of distinct calendar months of the dataset: M < 3 Statistical, 3 <= M < 7
\* Simplified-ML, M >= 7 Ensemble-ML, whatever earlier calls left in the
\* ModelBank.
C3_TierFunctionOfMonths ==
    last.op = "train" =>
        /\ MonthsTrainedOn(last.req) < 3 => last.tier = "statistical"
        /\ (3 <= MonthsTrainedOn(last.req) /\ MonthsTrainedOn(last.req) < 7)
               => last.tier = "simplified_ml"
        /\ MonthsTrainedOn(last.req) >= 7 => last.tier = "ensemble_ml"

\* A nine month history trained as Ensemble-ML on a predictor that an earlier
\* two month history had left in the Statistical tier.
C3_EnsembleAfterStatistical ==
    /\ last.op = "train"
    /\ last.req.months = 9
    /\ MonthsTrainedOn(last.req) = 9
    /\ last.tier = "ensemble_ml"
    /\ "statistical" \in DOMAIN models
    /\ trail = "small_then_large"

\* C4: after a training call on fewer than 3 months followed by a successful
\* training call on 7 or more months, predict_next_month produces its result
\* from the 'main' regression model, not from the statistical model.
C4_TierNotSticky ==
    (ReturnedPrediction /\ trail = "small_then_large") => last.source = "main"

\* What predict_next_month gives on predictor self with model file file.
Forecast(self, file, req, target) ==
    LET r == predict_next_month(self, file, frames[req], target,
                                CHOOSE fit \in FitsFor(req) : TRUE)
    IN [exc |-> r.exc, result |-> r.result]

\* C5: in every state that training calls reach, saving the ModelBank and
\* restoring it into a fresh predictor gives a predictor whose
\* predict_next_month result equals the original's, for every dataset and
\* target month on which the original returns one.
C5_SaveRestoreRoundTrip ==
    last.op = "train" =>
        \A req \in Requests : \A target \in Targets :
            Forecast(Self, save_models(Self), req, target).exc = "none"
                => Forecast(initialize(NewPredictor, save_models(Self), TRUE),
                            save_models(Self), req, target)
                       = Forecast(Self, save_models(Self), req, target)

\* C6: no forecasting call raises, whatever calls came before it, a
\* prediction on a predictor that was never initialised included.
C6_ForecastNeverRaises ==
    last.op \in {"predict_next_month", "predict_by_category"} => last.exc = "none"

\* The degenerate result the specification describes.
IsDegenerate(result) ==
    /\ result.predicted_amount = 0
    /\ result.confidence = 10
    /\ result.trend = "unknown"
    /\ result.prediction_range = << 0, 0 >>

\* The forecasting call found the predictor untrained and trained it first.
OnUntrained == last.tier # "none"

\* C7: predict_next_month of an empty transaction list on an untrained
\* predictor returns the degenerate result: amount 0, confidence 0.1, trend
\* 'unknown', range (0, 0).
C7_EmptyListDegenerate ==
    (last.op = "predict_next_month" /\ OnUntrained /\ last.req.profile = "empty")
        => (last.exc = "none" /\ IsDegenerate(last.prediction))

\* C8: for a non-empty dataset without any expense record, predict_next_month
\* returns the degenerate result (amount 0, confidence 0.1, trend 'unknown',
\* range (0, 0)) in every tier and does not raise.
C8_NoExpensesDegenerate ==
    (last.op = "predict_next_month" /\ OnUntrained
        /\ ~frames[last.req].empty /\ ~frames[last.req].has_expenses)
        => (last.exc = "none" /\ IsDegenerate(last.prediction))

\* C9: a training call on a dataset of 3 <= M < 7 months that contains
\* expenses trains the regression: it returns a non-empty result and leaves a
\* 'main' model in the ModelBank.
C9_SimplifiedTrains ==
    (last.op = "train" /\ frames[last.req].has_expenses
        /\ 3 <= frames[last.req].months /\ frames[last.req].months < 7)
        => (last.train.shape = "dict" /\ last.train.training_samples > 0
            /\ "main" \in DOMAIN models)

\* C10: for the dataset whose only expense category is Food with monthly
\* totals 1000, 1200, 1400, 1600, predict_by_category returns a Food entry
\* with trend 'increasing'.
C10_FoodIncreasing ==
    (last.op = "predict_by_category" /\ OnUntrained
        /\ last.req = [profile |-> "food", months |-> 4])
        => /\ last.exc = "none"
           /\ \E k \in 1 .. Len(last.categories) :
                  /\ last.categories[k].category = "Food"
                  /\ last.categories[k].trend = "increasing"

HoldsModel == "main" \in DOMAIN models \/ "statistical" \in DOMAIN models

\* C11: predict_next_month and predict_by_category on a predictor that holds
\* a trained model ('main' or 'statistical') leave models, scalers,
\* category_models and seasonal_patterns unchanged.
C11_PredictionsOnlyRead ==
    [][(HoldsModel /\ last'.op \in {"predict_next_month", "predict_by_category"})
          => UNCHANGED << models, scalers, category_models, seasonal_patterns >>]_vars

\* A category forecast served from the stored 'main' model without training.
C11_ServedFromStoredModel ==
    /\ last.op = "predict_by_category"
    /\ last.exc = "none"
    /\ last.tier = "none"
    /\ last.source = "main"
    /\ last.categories # << >>
    /\ HoldsModel

\* The ModelBank that one training call on the history of req leaves in a
\* new predictor.
BankOfOneTraining(req, fit) ==
    train_prediction_models(NewPredictor, << >>, frames[req], fit).self

\* The ModelBank is what one training call on the history of req alone gives.
StemsFrom(req) ==
    \E fit \in FitsFor(req) :
        /\ models = BankOfOneTraining(req, fit).models
        /\ scalers = BankOfOneTraining(req, fit).scalers
        /\ category_models = BankOfOneTraining(req, fit).category_models
        /\ seasonal_patterns = BankOfOneTraining(req, fit).seasonal_patterns

\* All four ModelBank fields stem from one and the same training call.
FromOneTraining == \E req \in Requests : StemsFrom(req)

\* C12: requests on the shared predictor are handled one at a time, and no
\* prediction reads a ModelBank whose seasonal_patterns, models, scalers and
\* category_models stem from different training calls.
C12_NoMixedModelBank ==
    (last.op \in {"predict_next_month", "predict_by_category"}
        /\ last.exc = "none" /\ HoldsModel)
        => FromOneTraining

\* initialize() found no usable model file: load_models answered False.
NoSavedModel == last.op = "initialize" /\ last.loaded = "False"

\* C13: when the model file is missing or cannot be deserialized, load_models
\* answers False without raising and without changing a ModelBank field, and
\* the next predict_next_month on the still untrained predictor trains on the
\* supplied dataset and returns instead of raising.
C13_MissingFileThenTrains ==
    [][/\ (last'.op = "initialize" /\ last'.loaded = "False")
            => (/\ last'.exc = "none"
                /\ UNCHANGED << models, scalers, category_models,
                                seasonal_patterns >>)
       /\ (NoSavedModel /\ ~HoldsModel /\ last'.op = "predict_next_month")
            => (/\ last'.exc = "none"
                /\ last'.train # NoTrain)]_vars

\* A new predictor after load_models() of the model file as it is.
Reloaded == load_models(NewPredictor, disk, TRUE)

\* The four ModelBank fields of the loading predictor equal the saved ones.
FieldsRestored ==
    /\ Reloaded.ok
    /\ Reloaded.self.models = disk[1].models
    /\ Reloaded.self.scalers = disk[1].scalers
    /\ Reloaded.self.category_models = disk[1].category_models
    /\ Reloaded.self.seasonal_patterns = disk[1].seasonal_patterns

\* The loading predictor holds the training timestamp of the file.
TimestampRestored ==
    /\ "timestamp" \in DOMAIN Reloaded.self
    /\ Reloaded.self.timestamp = disk[1].timestamp

\* C14: save_models of a trained predictor followed by load_models gives the
\* loading predictor models, scalers, category_models and seasonal_patterns
\* equal to the saved ones, and the saved training timestamp as well.
C14_SaveLoadRestoresAll ==
    (last.op = "save_models" /\ HoldsModel) => (FieldsRestored /\ TimestampRestored)

\* POST /train-models on the dict train_prediction_models returned: an empty
\* dict is falsy and becomes HTTP 500, every other dict becomes
\* TrainingResponse(success=True, message="Models trained successfully").
TrainingResponse(training_results) ==
    IF training_results.shape = "empty"
    THEN [status |-> 500, success |-> "absent", detail |-> "Model training failed"]
    ELSE [status |-> 200, success |-> "True",
          detail |-> "Models trained successfully"]

\* The training call stored no model: the statistical branch found no
\* expenses, or no training example was built.
ProducedNoModel == last.op = "train" /\ last.train.model_type = "none"

\* C15: a training call that cannot produce a model returns a failure result
\* (nothing escapes train_prediction_models) and the caller is not told that
\* the training succeeded.
C15_FailedTrainingReported ==
    ProducedNoModel
        => /\ last.exc = "none"
           /\ last.train.shape = "empty" \/ last.train.success = "False"
           /\ TrainingResponse(last.train).success # "True"

\* C16: train_prediction_models trains on synthetic data only when the
\* supplied dataset is empty; after a training call on a non-empty dataset
\* the ModelBank is derived from the supplied records only.
C16_NonEmptyTrainsOnSupplied ==
    (last.op = "train" /\ ~frames[last.req].empty)
        => /\ TrainingFrame(frames[last.req]) = frames[last.req]
           /\ StemsFrom(last.req)

\* The rows load_transaction_data returned for the last raw body.
Rows == ingest.result.rows

\* Dates in the returned rows never decrease (rows without a date aside).
DatesNonDecreasing ==
    \A i, j \in 1 .. Len(Rows) :
        (i < j /\ Rows[i].date.kind = "day" /\ Rows[j].date.kind = "day")
            => Rows[i].date.day <= Rows[j].date.day

\* Every returned amount is a number, 0 where the raw amount did not parse.
AmountsNumeric ==
    \A i \in 1 .. Len(Rows) :
        /\ Rows[i].amount \in Int
        /\ ingest.raw[i].amount.kind = "text" => Rows[i].amount = 0

\* C17: whatever the order of the input records, the dataset returned by
\* load_transaction_data has non-decreasing dates and numeric amounts, an
\* unparseable amount being 0.
C17_SortedByDate ==
    (ingest.raw # << >> /\ ingest.result.exc = "none")
        => (DatesNonDecreasing /\ AmountsNumeric)

\* No record of the last raw body has a 'date' key.
NoDateField == \A i \in 1 .. Len(ingest.raw) : ingest.raw[i].date.kind = "absent"

\* C18: load_transaction_data does not raise on bad field values: records
\* without a date field get the current date, an unparseable date is coerced
\* instead of raising, and an unparseable amount becomes 0.
C18_BadValuesCoerced ==
    ingest.raw # << >>
        => /\ ingest.result.exc = "none"
           /\ NoDateField => \A i \in 1 .. Len(Rows) :
                                 Rows[i].date = [kind |-> "day", day |-> Now]
           /\ AmountsNumeric

\* The confidence formula of predict_next_month ran with a zero denominator:
\* the adjusted amount is 0 and the history has more than one month.
ZeroDenominator ==
    /\ last.op = "predict_next_month" /\ last.exc = "none"
    /\ last.source = "main"
    /\ last.prediction.predicted_amount = 0
    /\ Len(frames[last.req].monthly) > 1

\* C19: the divisions of forecasting are guarded; with a predicted amount of
\* 0 in the confidence formula the confidence is the fallback 0.5, not the
\* clamp of an infinity or a NaN.
C19_ZeroDenominatorFallback ==
    ZeroDenominator => last.prediction.confidence = 50

\* The last scored history has identical monthly totals over two or more
\* months.
ConstantTotals == health.history.step = 0 /\ health.history.months >= 2

\* C20: for a single-category dataset whose monthly expense totals are
\* identical over at least two months, the coefficient of variation of the
\* spending-stability metric is 0, its trend is 'stable', and the overall
\* direction of analyze_patterns is 'stable'.
C20_ConstantTotalsStable ==
    ConstantTotals
        => /\ health.metric.current_value # << >>
           /\ health.metric.current_value[1].num = 0
           /\ health.metric.current_value[1].den > 0
           /\ health.metric.trend = "stable"
           /\ health.direction = "stable"

\* Nine months of 40000 rupees of Food each were scored as excellent.
C20_NineConstantMonthsScored ==
    /\ health.history = [months |-> MaxMonths, base |-> 40000, step |-> 0]
    /\ health.metric.status = "excellent"
    /\ health.metric.score = 100

\* model.predict on the feature vector transformed by the stored scaler.
ScaledPredict(self, features) ==
    self.models["main"].base
    + self.models["main"].coef
      * ((features[1] - self.scalers["linear_regression"].mean)
         \div self.scalers["linear_regression"].scale)

\* The last call returned a value of the stored linear model.
ServedByLinearModel ==
    /\ last.op = "predict_next_month" /\ last.exc = "none"
    /\ last.source = "main"
    /\ models["main"].kind = "linear_regression"
    /\ "linear_regression" \in DOMAIN scalers

\* C21: when 'main' is the linear model trained on standardized features,
\* predict_next_month transforms the feature vector with the stored scaler
\* before it calls the model.
C21_LinearModelGetsScaledFeatures ==
    ServedByLinearModel
        => last.prediction
             = AdjustRaw(Self,
                         ScaledPredict(Self, frames[last.req].features[last.target]),
                         frames[last.req], last.target)

\* Total expense amount of the i-th calendar month before month target in
\* the history of req (0 when the month has no expense).
TotalMonthsBefore(req, target, i) ==
    MonthTotal(load_transaction_data(Transactions(req)), target - i)

\* The last call built the feature vector of its target month and fed it to
\* the stored model.
UsedFeatures ==
    /\ last.op = "predict_next_month" /\ last.exc = "none"
    /\ last.source = "main"

\* C22: the first six entries of the vector prepare_features builds for a
\* target month t are the expense totals of the months t-1, ..., t-6 in that
\* order, and the vector has length 11.
C22_LagsAreSixPrecedingMonths ==
    UsedFeatures
        => /\ Len(frames[last.req].features[last.target]) = 11
           /\ \A i \in 1 .. 6 :
                  frames[last.req].features[last.target][i]
                      = TotalMonthsBefore(last.req, last.target, i)

\* The last predict_next_month was answered in the Statistical tier: it
\* trained the statistical model itself, or _predict_statistical produced the
\* value from the stored one.
InStatisticalTier ==
    /\ last.op = "predict_next_month" /\ last.exc = "none"
    /\ \/ last.tier = "statistical" /\ last.train.success = "True"
       \/ last.source = "statistical"

\* daily_average * 30 of the stored statistical model, in whole rupees.
ThirtyDayAmount ==
    (models["statistical"].total_expenses * 30)
        \div models["statistical"].date_range_days

DatasetCategories(req) == DOMAIN frames[req].category_means
QualifyingCategories(req) == DOMAIN frames[req].category_fits

\* After a training call, the categories of its dataset that hold a trend
\* model are exactly the qualifying ones.
TrendModelIffQualifies ==
    (last.op = "train" /\ ~frames[last.req].empty)
        => \A c \in DatasetCategories(last.req) :
               (c \in DOMAIN category_models) <=> (c \in QualifyingCategories(last.req))

\* In a returned category list, a category with a trend model has a
\* confidence within [0.3, 0.9] and an amount of at least 0; any other has
\* confidence 0.6 and trend 'stable'.
CategoryEntriesByKind ==
    (last.op = "predict_by_category" /\ last.exc = "none")
        => \A k \in 1 .. Len(last.categories) :
               IF last.categories[k].category \in DOMAIN category_models
               THEN /\ last.categories[k].confidence \in 30 .. 90
                    /\ last.categories[k].predicted_amount.num >= 0
               ELSE /\ last.categories[k].confidence = 60
                    /\ last.categories[k].trend = "stable"

\* C24: a category receives a trend model exactly when the training dataset
\* holds at least 10 expense transactions of it over at least 4 months; the
\* other categories are predicted from their monthly average with confidence
\* 0.6 and trend 'stable', a category with a trend model with a confidence
\* within [0.3, 0.9] and an amount floored at 0.
C24_TrendModelExactlyWhenQualifying ==
    TrendModelIffQualifies /\ CategoryEntriesByKind

\* predict_by_category returned a list.
ReturnedList == last.op = "predict_by_category" /\ last.exc = "none"

\* C25: the list predict_by_category returns is in non-increasing order of
\* the final predicted_amount (the entries of one list share their
\* denominator) and names each category at most once.
C25_SortedAndDistinct ==
    ReturnedList
        => \A i, j \in 1 .. Len(last.categories) :
               i < j => /\ last.categories[i].predicted_amount.den
                             = last.categories[j].predicted_amount.den
                        /\ last.categories[i].predicted_amount.num
                             >= last.categories[j].predicted_amount.num
                        /\ last.categories[i].category # last.categories[j].category

\* A returned list of two or more categories with different amounts.
C25_SeveralCategoriesReturned ==
    /\ ReturnedList
    /\ Len(last.categories) >= 2
    /\ last.categories[1].predicted_amount.num > last.categories[2].predicted_amount.num

\* The attempts stay within the limit, a transaction is appended with a drawn
\* timestamp, and a finished generation has made every transaction.
BoundedAttempts ==
    /\ synth.attempts <= MaxAttempts
    /\ synth.pc = "append" => synth.transaction_date \in Slots
    /\ synth.pc = "done" => Len(synth.dates) = MaxTransactions

\* C26: the timestamp loop of each transaction ends after at most 50
\* attempts, a transaction whose 50 attempts all collided takes the last
\* drawn duplicate timestamp, and the generation always completes.
C26_TimestampLoopTerminates ==
    /\ []BoundedAttempts
    /\ <>(synth.pc = "done")

\* All 50 attempts of a transaction collided and the loop was left with a
\* timestamp that is already in use.
C26_DuplicateAccepted ==
    /\ synth.pc = "append"
    /\ synth.attempts = MaxAttempts
    /\ synth.used_dates = Slots
    /\ \E k \in 1 .. Len(synth.dates) : synth.dates[k] = synth.transaction_date

\* The last call was a training call that stored a model.
TrainingSucceeded == last.op = "train" /\ last.train.model_type # "none"

\* C27: after every successful training call, whatever its tier, the model
\* file holds the resulting ModelBank: a predictor restarted now and
\* initialized from disk holds the models of that training.
C27_SuccessfulTrainingPersisted ==
    TrainingSucceeded
        => /\ Reloaded.ok
           /\ initialize(NewPredictor, disk, TRUE).models = models
           /\ initialize(NewPredictor, disk, TRUE).seasonal_patterns
                = seasonal_patterns

\* The last call forecast with the regression model for a calendar month
\* that has no entry in seasonal_patterns.
TargetMonthUnseen ==
    /\ last.op \in {"predict_next_month", "predict_by_category"}
    /\ last.exc = "none"
    /\ last.source = "main"
    /\ MonthOf(last.target) \notin DOMAIN seasonal_patterns

\* Lines 714-715: the trend model of a category extrapolated to the next
\* month, before any seasonal adjustment.
CategoryExtrapolation(self, category) ==
    self.category_models[category].intercept
    + (self.category_models[category].slope_num
       * self.category_models[category].months_trained)
      \div self.category_models[category].slope_den

\* C28: when seasonal_patterns has no entry for the target calendar month,
\* the seasonal factor of predict_next_month is exactly 1.0 and
\* predict_by_category leaves the extrapolation of every trend model
\* unadjusted.
C28_UnseenMonthUnadjusted ==
    TargetMonthUnseen
        => /\ last.prediction.seasonal_factor.num
              = last.prediction.seasonal_factor.den
           /\ last.op = "predict_by_category"
                => \A c \in DOMAIN category_models :
                       TrendPrediction(Self, c, MonthOf(last.target)).value
                       = Max(0, CategoryExtrapolation(Self, c))

\* C29: a training call that fails (an empty result or success False)
\* leaves models, scalers, category_models, seasonal_patterns and the tier
\* flag exactly as they were before the call.
C29_FailedTrainingChangesNothing ==
    [][(last'.op = "train" /\ last'.train.model_type = "none")
          => UNCHANGED << models, scalers, category_models, seasonal_patterns,
                          use_statistical_prediction >>]_vars

\* The expense categories of the dataset a training call on req learns from.
TrainedCategories(req) == DOMAIN TrainingFrame(frames[req]).category_means

\* Right after a successful training, every trend model belongs to a
\* category of the dataset just trained on.
OnlyCurrentTrendModels ==
    TrainingSucceeded => DOMAIN category_models \subseteq TrainedCategories(last.req)

\* A predict_by_category served right after a successful training names only
\* categories of that training's dataset or of its own history.
NoStaleCategoryReturned ==
    (TrainingSucceeded /\ last'.op = "predict_by_category" /\ last'.exc = "none"
        /\ last'.train = NoTrain)
        => \A k \in 1 .. Len(last'.categories) :
               last'.categories[k].category
                   \in TrainedCategories(last.req) \cup DatasetCategories(last'.req)

\* C30: after any sequence of training calls, category_models holds trend
\* models only for categories of the dataset of the most recent successful
\* training call, and trend models learned from an earlier dataset never
\* appear in a later predict_by_category result.
C30_NoStaleCategoryModels ==
    []OnlyCurrentTrendModels /\ [][NoStaleCategoryReturned]_vars
====
